---- MODULE Spec2Model ----
(***************************************************************************)
(* A model of wily's report and diff commands                              *)
(* (src/wily/commands/report.py, src/wily/commands/diff.py).               *)
(*                                                                         *)
(* Metric values are Python objects of mixed type (int, str, None).  They  *)
(* are modelled as records [t, num, str] so that values of different       *)
(* Python types can be compared for equality: Num(i) is the int i, Str(x)  *)
(* the str x, None is Python's None.  File names are sequences of one-letter *)
(* strings, so that str.startswith and the test ":" in name are computed   *)
(* on the characters.                                                      *)
(***************************************************************************)
EXTENDS Integers, Sequences, FiniteSets, TLC

VARIABLES
    index,      \* state.index: archiver -> revisions, most recent first
    tree,       \* the working tree as the operators measure it
    pc,         \* position of the running command
    outcome,    \* how the command ended: "none", "ok" or the error raised
    out,        \* what the command printed or wrote
    metric_metas, n, ai, history, last, data,                   \* report
    files, metrics, changes_only, detail, target_revision,      \* diff
    pending, operator_exec_out, opdata, fi, results             \* diff

rvars == <<metric_metas, n, ai, history, last, data>>
dvars == <<files, metrics, changes_only, detail, target_revision,
           pending, operator_exec_out, opdata, fi, results>>
vars == <<index, tree, pc, outcome, out, rvars, dvars>>

----------------------------------------------------------------------------
(* Bounds *)

\* Largest number of revisions indexed over all archivers.
MaxRevs == 3

----------------------------------------------------------------------------
(* Python values *)

Num(i) == [t |-> "num", num |-> i, str |-> ""]
Str(x) == [t |-> "str", num |-> 0, str |-> x]
None == [t |-> "none", num |-> 0, str |-> ""]

\* Python truthiness, as used by "if last_val" and "elif last_val".
Truthy(v) ==
    CASE v.t = "num" -> v.num # 0
      [] v.t = "str" -> v.str # ""
      [] OTHER -> FALSE

\* ord() of a one-character string.
Ord(v) ==
    CASE v.str = "A" -> 65
      [] v.str = "B" -> 66
      [] v.str = "C" -> 67

\* str() of a small integer.
Decimal(i) ==
    CASE i = 0 -> "0" [] i = 1 -> "1" [] i = 2 -> "2" [] i = 3 -> "3"
      [] i = 4 -> "4" [] i = -1 -> "-1" [] i = -2 -> "-2" [] i = -3 -> "-3"
      [] i = -4 -> "-4"

\* format_delta: the text of a value.
format_delta(v) == IF v.t = "num" THEN Str(Decimal(v.num)) ELSE v

\* seq[::-1]
Reverse(seq) == [i \in 1..Len(seq) |-> seq[Len(seq) + 1 - i]]

\* seq[:k] for k >= 0
Take(seq, k) == SubSeq(seq, 1, IF k < Len(seq) THEN k ELSE Len(seq))

----------------------------------------------------------------------------
(* The registry of operators and metrics (wily.operators) *)

\* ANSI colour codes, as generate_html_report names them.
Green == 32
Red == 31
Orange == 33

MetricKeys == {"loc", "mi", "rank", "h1", "h2"}

\* resolve_metric_as_tuple / resolve_metric / resolve_operator: the operator a
\* metric belongs to, the metric's value type and its measure (aim).
Registry(key) ==
    CASE key = "loc"  -> [key |-> "loc", operator |-> "raw", level |-> "File",
                          type |-> "int", measure |-> "Informational"]
      [] key = "mi"   -> [key |-> "mi", operator |-> "maintainability",
                          level |-> "File", type |-> "float",
                          measure |-> "AimHigh"]
      [] key = "rank" -> [key |-> "rank", operator |-> "maintainability",
                          level |-> "File", type |-> "str",
                          measure |-> "Informational"]
      [] key = "h1"   -> [key |-> "h1", operator |-> "halstead",
                          level |-> "Object", type |-> "int",
                          measure |-> "AimLow"]
      [] key = "h2"   -> [key |-> "h2", operator |-> "halstead",
                          level |-> "Object", type |-> "int",
                          measure |-> "AimLow"]

GOOD_COLORS(measure) ==
    CASE measure = "AimHigh" -> Green
      [] measure = "AimLow" -> Red
      [] OTHER -> Orange

BAD_COLORS(measure) ==
    CASE measure = "AimHigh" -> Red
      [] measure = "AimLow" -> Green
      [] OTHER -> Orange

----------------------------------------------------------------------------
(* The revision index (wily.state) *)

\* state.archivers, in the order report walks them.
Archivers == <<"git", "filesystem">>
ArchiverSet == {Archivers[i] : i \in 1..Len(Archivers)}

\* File and function names: sequences of characters.
FileA == <<"a">>
FileAB == <<"a", "b">>
Colon == ":"
FuncName(file, k) == file \o <<Colon>> \o <<k>>
Funcs == {"f"}
Names ==
    {FileA, FileAB}
    \cup {FuncName(file, k) : file \in {FileA, FileAB}, k \in Funcs}

NumVals == {Num(0), Num(1), Num(2)}
StrVals == {Str("A"), Str("B")}
ValuesOf(key) == IF Registry(key).type = "str" THEN StrVals ELSE NumVals

\* A revision entry holds, per name and metric, a value or nothing (None
\* stands for a missing key).
NoVals == [nm \in Names |-> [k \in MetricKeys |-> None]]

NoRevision == [key |-> <<"none", 0>>, date |-> 0, vals |-> NoVals]

\* IndexedRevision.get: the stored value, or KeyError when there is none.
RevGet(rev, path, key) ==
    IF rev.vals[path][key] = None
    THEN [ok |-> FALSE, val |-> None]
    ELSE [ok |-> TRUE, val |-> rev.vals[path][key]]

----------------------------------------------------------------------------
(* report (report.py) *)

\* The path report is asked about.
ReportPath == FileA

\* The metric lists report is run with.
ReportMetricLists == {<<"mi">>, <<"h1">>, <<"rank">>}

\* Lines 65-75: the metric_meta of a requested metric.
MetricMeta(key) ==
    [key |-> Registry(key).key, operator |-> Registry(key).operator,
     type |-> Registry(key).type, measure |-> Registry(key).measure]

\* The window one revision too long.
ReportWindow_OffByOne(revisions, k) == Reverse(Take(revisions, k + 1))

\* Line 79: revisions[:n][::-1], the window in the order the loop walks it.
ReportWindow(revisions, k) == Reverse(Take(revisions, k))

\* Lines 91-98: delta.
ReportDelta(meta, val, last_val) ==
    IF meta.type \in {"int", "float"}
    THEN IF Truthy(last_val) THEN val.num - last_val.num ELSE 0
    ELSE IF Truthy(last_val)
         THEN IF last_val # val THEN Ord(last_val) - Ord(val) ELSE 1
         ELSE 1

\* Lines 91-99: change, the value shown inside the colour.
ReportChange(meta, val, last_val) ==
    IF meta.type \in {"int", "float"}
    THEN Num(ReportDelta(meta, val, last_val))
    ELSE IF Truthy(last_val) THEN last_val ELSE val

\* _plant_delta_color: the text of the change in the given colour, "+" before
\* a positive number.
plant_delta_color(color, change) ==
    [color |-> color, end |-> format_delta(change),
     plus |-> (change.t = "num" /\ change.num > 0)]

\* _plant_delta: "now (then)".
plant_delta(val, delta_col) == [now |-> format_delta(val), then |-> delta_col]

\* Lines 102-111: delta_col; a delta of 0 is shown as a plain 0.
DeltaCol(meta, val, last_val) ==
    LET delta == ReportDelta(meta, val, last_val)
        change == ReportChange(meta, val, last_val)
    IN  IF delta = 0
        THEN [color |-> 0, end |-> format_delta(Num(0)), plus |-> FALSE]
        ELSE IF delta < 0
             THEN plant_delta_color(BAD_COLORS(meta.measure), change)
             ELSE plant_delta_color(GOOD_COLORS(meta.measure), change)

\* The "Not found" cell of the except branch (line 114).
NotFoundCell ==
    [found |-> FALSE, last_val |-> None, delta |-> 0,
     k |-> plant_delta(None, [color |-> 0, end |-> Str(""), plus |-> FALSE])]

\* Lines 84-115: the cell of one metric in one revision's row: the text k,
\* kept with the locals last_val and delta it was made from.
MetricCell(meta, rev, lst) ==
    LET got == RevGet(rev, ReportPath, meta.key)
        last_val == lst[meta.key]
    IN  IF ~got.ok
        THEN NotFoundCell
        ELSE [found |-> TRUE, last_val |-> last_val,
              delta |-> ReportDelta(meta, got.val, last_val),
              k |-> plant_delta(got.val, DeltaCol(meta, got.val, last_val))]

\* Line 101: last[meta["key"]] = val, skipped when the lookup raised.
LastAfter(metas, rev, lst) ==
    [k \in MetricKeys |->
        IF \E i \in 1..Len(metas) :
              metas[i].key = k /\ RevGet(rev, ReportPath, k).ok
        THEN RevGet(rev, ReportPath, k).val
        ELSE lst[k]]

\* Lines 116-134: the row of a revision.  The author, date text and message
\* columns are copied from the revision and are left out; the row keeps the
\* revision's key and date.
ReportRow(metas, rev, lst) ==
    [rev |-> rev.key, date |-> rev.date,
     vals |-> [i \in 1..Len(metas) |-> MetricCell(metas[i], rev, lst)]]

\* Lines 59-77.
ReportBegin ==
    /\ pc = "report"
    /\ \E ms \in ReportMetricLists, k \in 0..MaxRevs :
          /\ metric_metas' = [i \in 1..Len(ms) |-> MetricMeta(ms[i])]
          /\ n' = k
    /\ data' = <<>>
    /\ ai' = 1
    /\ pc' = "archiver"
    /\ UNCHANGED <<index, tree, outcome, out, history, last, dvars>>

\* Lines 78-80: the next archiver's window, and an empty last.
ReportArchiver ==
    /\ pc = "archiver"
    /\ ai <= Len(Archivers)
    /\ history' = ReportWindow(index[Archivers[ai]], n)
    /\ last' = [k \in MetricKeys |-> None]
    /\ pc' = "rev"
    /\ UNCHANGED <<index, tree, outcome, out, metric_metas, n, ai, data, dvars>>

\* Lines 81-134: one revision of the window.
ReportRev ==
    /\ pc = "rev"
    /\ history # <<>>
    /\ data' = Append(data, ReportRow(metric_metas, Head(history), last))
    /\ last' = LastAfter(metric_metas, Head(history), last)
    /\ history' = Tail(history)
    /\ UNCHANGED <<index, tree, pc, outcome, out, metric_metas, n, ai, dvars>>

\* Line 81: the window is exhausted.
ReportArchiverDone ==
    /\ pc = "rev"
    /\ history = <<>>
    /\ ai' = ai + 1
    /\ pc' = "archiver"
    /\ UNCHANGED <<index, tree, outcome, out, metric_metas, n, history, last,
                   data, dvars>>

\* generate_html_report, lines 183-191: one table row per line of data[::-1].
generate_html_report(rows) == [kind |-> "html", rows |-> Reverse(rows)]

\* Lines 145-149: tabulate of data[::-1].
ReportConsole(rows) == [kind |-> "console", rows |-> Reverse(rows)]

\* generate_json_report, line 229: the single issue made of data[-1].
generate_json_report(rows) == [kind |-> "json", rows |-> <<rows[Len(rows)]>>]

NoOutput == [kind |-> "none", rows |-> <<>>]

\* Lines 135-149, in the console and HTML formats.
ReportOutput ==
    /\ pc = "archiver"
    /\ ai > Len(Archivers)
    /\ \E format \in {"CONSOLE", "HTML"} :
          out' = IF format = "HTML"
                 THEN generate_html_report(data)
                 ELSE ReportConsole(data)
    /\ outcome' = "ok"
    /\ pc' = "done"
    /\ UNCHANGED <<index, tree, rvars, dvars>>

\* Lines 141-143 in the JSON format: data[-1] raises IndexError when there
\* is no row.
ReportOutputJson ==
    /\ pc = "archiver"
    /\ ai > Len(Archivers)
    /\ IF data = <<>>
       THEN /\ outcome' = "IndexError"
            /\ pc' = "failed"
            /\ out' = out
       ELSE /\ outcome' = "ok"
            /\ pc' = "done"
            /\ out' = generate_json_report(data)
    /\ UNCHANGED <<index, tree, rvars, dvars>>

\* The revisions of one archiver, most recent first, holding the values vs
\* (most recent first) of metric key at ReportPath.
Revisions(archiver, key, vs) ==
    [i \in 1..Len(vs) |->
        [key |-> <<archiver, Len(vs) + 1 - i>>, date |-> Len(vs) + 1 - i,
         vals |-> [NoVals EXCEPT ![ReportPath][key] = vs[i]]]]

ValueSeqs(key) ==
    UNION {[1..k -> ValuesOf(key) \cup {None}] : k \in 0..MaxRevs}

ReportIndexesOf(key) ==
    {[a \in ArchiverSet |->
        Revisions(a, key, IF a = Archivers[1] THEN p[1] ELSE p[2])] :
     p \in {q \in ValueSeqs(key) \X ValueSeqs(key) :
                Len(q[1]) + Len(q[2]) <= MaxRevs}}

ReportIndexes ==
    UNION {ReportIndexesOf(ms[1]) : ms \in ReportMetricLists}

DiffIdle ==
    /\ files = <<>> /\ metrics = <<>> /\ changes_only = FALSE
    /\ detail = FALSE /\ target_revision = NoRevision /\ pending = {}
    /\ operator_exec_out = <<>> /\ opdata = <<>> /\ fi = 0
    /\ results = <<>>

ReportIdle ==
    /\ metric_metas = <<>> /\ n = 0 /\ ai = 0 /\ history = <<>>
    /\ last = [k \in MetricKeys |-> None] /\ data = <<>>

InitReport ==
    /\ index \in ReportIndexes
    /\ tree = <<>>
    /\ pc = "report"
    /\ outcome = "none"
    /\ out = NoOutput
    /\ ReportIdle
    /\ DiffIdle

NextReport ==
    \/ ReportBegin
    \/ ReportArchiver
    \/ ReportRev
    \/ ReportArchiverDone
    \/ ReportOutput
    \/ ReportOutputJson

SpecReport == InitReport /\ [][NextReport]_vars

----------------------------------------------------------------------------
(* diff (diff.py) *)

\* state.default_archiver
DefaultArchiver == "git"

DiffNumVals == {Num(1), Num(2)}
DiffValuesOf(key) == IF Registry(key).type = "str" THEN StrVals ELSE DiffNumVals

\* str.startswith
StartsWith(name, prefix) ==
    /\ Len(prefix) <= Len(name)
    /\ SubSeq(name, 1, Len(prefix)) = prefix

\* ":" in name
HasColon(name) == \E i \in 1..Len(name) : name[i] = Colon

\* The file part of "file:function", and of a file name the name itself.
FileOf(name) ==
    IF HasColon(name)
    THEN SubSeq(name, 1, (CHOOSE i \in 1..Len(name) : name[i] = Colon) - 1)
    ELSE name

\* The function part of "file:function".
FuncOf(name) == name[Len(name)]

\* Python's > on two values of one type.
Gt(x, y) == IF x.t = "num" THEN x.num > y.num ELSE Ord(x) > Ord(y)

\* run_operator: what an operator that runs to its end returns for the
\* working tree: the files it measured, for an object-level operator the
\* functions of each file, and the values of its own metrics.
OperatorResult(op) ==
    [files |-> tree.files,
     detailed |-> [f \in tree.files |->
                     IF \E k \in MetricKeys :
                           Registry(k).operator = op
                           /\ Registry(k).level = "Object"
                     THEN tree.detailed[f] ELSE {}],
     vals |-> [nm \in Names |-> [k \in MetricKeys |->
                 IF Registry(k).operator = op THEN tree.vals[nm][k]
                 ELSE None]]]

\* get_metric: the value of a file or of "file:function" in the operators'
\* results, or KeyError.
get_metric(d, op, name, key) ==
    IF /\ op \in DOMAIN d
       /\ FileOf(name) \in d[op].files
       /\ HasColon(name) => FuncOf(name) \in d[op].detailed[FileOf(name)]
       /\ d[op].vals[name][key] # None
    THEN [ok |-> TRUE, val |-> d[op].vals[name][key]]
    ELSE [ok |-> FALSE, val |-> None]

\* A set of function names as the list dict.keys() gives.
RECURSIVE KeysOf(_)
KeysOf(S) ==
    IF S = {} THEN <<>>
    ELSE LET k == CHOOSE x \in S : TRUE IN <<k>> \o KeysOf(S \ {k})

\* Lines 125-136: the "file:k" entries one metric adds for one file; nothing
\* when the file is not in the operator's result (KeyError).
ExtraOfFile(d, key, file) ==
    IF file \in d[Registry(key).operator].files
    THEN LET ks == KeysOf(d[Registry(key).operator].detailed[file])
         IN  [i \in 1..Len(SelectSeq(ks, LAMBDA k : k # key)) |->
                FuncName(file, SelectSeq(ks, LAMBDA k : k # key)[i])]
    ELSE <<>>

RECURSIVE ExtraOfFiles(_, _, _)
ExtraOfFiles(d, key, fs) ==
    IF fs = <<>> THEN <<>>
    ELSE ExtraOfFile(d, key, Head(fs)) \o ExtraOfFiles(d, key, Tail(fs))

\* Lines 120-136: extra, one pass over the files for every requested metric
\* of an object-level operator.
RECURSIVE Extra(_, _, _, _)
Extra(d, ms, fs, det) ==
    IF ms = <<>> THEN <<>>
    ELSE (IF det /\ Registry(Head(ms)).level = "Object"
          THEN ExtraOfFiles(d, Head(ms), fs) ELSE <<>>)
         \o Extra(d, Tail(ms), fs, det)

\* The placeholder of a missing value.
Dash == Str("-")

\* Lines 144-149: current, "-" on KeyError.
DiffCurrent(rev, file, key) ==
    IF RevGet(rev, file, key).ok THEN RevGet(rev, file, key).val ELSE Dash

\* Lines 151-154: new, "-" on KeyError.
DiffNew(d, file, key) ==
    LET got == get_metric(d, Registry(key).operator, file, key)
    IN  IF got.ok THEN got.val ELSE Dash

\* Line 159: _form.
Form(x) == IF x = Dash THEN x ELSE format_delta(x)

\* The cell made without looking for the placeholder: any two different
\* sides are compared and coloured.
DiffCell_NoPlaceholder(key, current, new) ==
    IF current = new
    THEN [single |-> FALSE, currents |-> Form(current), news |-> Form(new),
          color |-> 0]
    ELSE [single |-> FALSE, currents |-> Form(current), news |-> Form(new),
          color |-> GOOD_COLORS(Registry(key).measure)]

\* Lines 159-175: the cell of one metric; color 0 is unstyled text, and a
\* cell with single = TRUE is the lone "-".
DiffCell(key, current, new) ==
    IF new # Dash /\ current # Dash
    THEN IF current = new
         THEN [single |-> FALSE, currents |-> Form(current),
               news |-> Form(new), color |-> 0]
         ELSE [single |-> FALSE, currents |-> Form(current),
               news |-> Form(new),
               color |-> IF Gt(current, new)
                         THEN BAD_COLORS(Registry(key).measure)
                         ELSE GOOD_COLORS(Registry(key).measure)]
    ELSE IF current = Dash /\ new = Dash
         THEN [single |-> TRUE, currents |-> Dash, news |-> Dash, color |-> 0]
         ELSE [single |-> FALSE, currents |-> Form(current),
               news |-> Form(new), color |-> 0]

\* A change counted only between two values that are both there.
CellChanged_BothPresent(current, new) ==
    new # current /\ new # Dash /\ current # Dash

\* Lines 156-157: whether one metric marks the row as changed.
CellChanged(current, new) == new # current

\* Lines 142-157: has_changes of a row.
HasChanges(rev, d, ms, file) ==
    \E i \in 1..Len(ms) :
        CellChanged(DiffCurrent(rev, file, ms[i]), DiffNew(d, file, ms[i]))

\* Line 178: the row (file, *metrics_data).
DiffRowOf(rev, d, ms, file) ==
    [name |-> file,
     cells |-> [i \in 1..Len(ms) |->
                  DiffCell(ms[i], DiffCurrent(rev, file, ms[i]),
                           DiffNew(d, file, ms[i]))]]

\* generate_json_diff, line 212: the rows of files.
JsonFiles(rows) == SelectSeq(rows, LAMBDA t : ~HasColon(t.name))

\* generate_json_diff, line 221: the rows taken as the functions of a file.
JsonFuncs(rows, file) ==
    SelectSeq(rows, LAMBDA t : StartsWith(t.name, file) /\ t.name # file)

\* Lines 217-225: the issue of a file followed by those of its functions.
JsonIssuesOf(rows, filet) ==
    <<[location |-> filet.name, column |-> "File", row |-> filet]>>
    \o [i \in 1..Len(JsonFuncs(rows, filet.name)) |->
          [location |-> filet.name, column |-> "Function",
           row |-> JsonFuncs(rows, filet.name)[i]]]

RECURSIVE JsonIssues(_, _)
JsonIssues(rows, filets) ==
    IF filets = <<>> THEN <<>>
    ELSE JsonIssuesOf(rows, Head(filets)) \o JsonIssues(rows, Tail(filets))

\* generate_json_diff: the issues written.
generate_json_diff(rows) ==
    [kind |-> "jsondiff", rows |-> JsonIssues(rows, JsonFiles(rows))]

\* The requests diff is run with: the files and the metrics.
DiffMetricLists ==
    {<<"loc">>, <<"rank">>, <<"h1">>, <<"h1", "h2">>, <<"loc", "h1">>}
DiffRequests ==
    {r \in [files : {<<FileA>>, <<FileA, FileAB>>}, metrics : DiffMetricLists] :
        Len(r.files) + Len(r.metrics) <= 3}

\* The operators of a list of metrics (line 106).
OperatorsOf(ms) == {Registry(ms[i]).operator : i \in 1..Len(ms)}

\* The names a request can make rows of.
RequestNames(r) ==
    {r.files[i] : i \in 1..Len(r.files)}
    \cup (IF \E i \in 1..Len(r.metrics) : Registry(r.metrics[i]).level = "Object"
          THEN {FuncName(r.files[i], k) : i \in 1..Len(r.files), k \in Funcs}
          ELSE {})

\* The (name, metric) pairs a request can read a value of: a function has
\* values only for the metrics of object-level operators.
RequestCells(r) ==
    {c \in RequestNames(r) \X {r.metrics[i] : i \in 1..Len(r.metrics)} :
        HasColon(c[1]) => Registry(c[2]).level = "Object"}

RequestValues(r) == DiffValuesOf(r.metrics[1]) \cup {None}

ValsFrom(cells, asg) ==
    [nm \in Names |-> [k \in MetricKeys |->
        IF <<nm, k>> \in cells THEN asg[<<nm, k>>] ELSE None]]

\* The working trees of a request: the files that exist, the functions of
\* each, and the values the operators would measure.
TreesOf(r) ==
    UNION {
      UNION {
        {[files |-> present, detailed |-> det,
          vals |-> ValsFrom({c \in RequestCells(r) :
                                /\ FileOf(c[1]) \in present
                                /\ HasColon(c[1])
                                   => FuncOf(c[1]) \in det[FileOf(c[1])]},
                            asg)] :
         asg \in [{c \in RequestCells(r) :
                      /\ FileOf(c[1]) \in present
                      /\ HasColon(c[1])
                         => FuncOf(c[1]) \in det[FileOf(c[1])]}
                  -> RequestValues(r)]} :
        det \in [present ->
                   SUBSET (IF \E nm \in RequestNames(r) : HasColon(nm)
                           THEN Funcs ELSE {})]} :
      present \in SUBSET {r.files[i] : i \in 1..Len(r.files)}}

\* The index of the default archiver holding one revision, with values for
\* the names the tree t gives rows for.
IndexesOf(r, t) ==
    {[a \in ArchiverSet |->
        IF a = DefaultArchiver
        THEN <<[key |-> <<a, 1>>, date |-> 1,
                vals |-> ValsFrom({c \in RequestCells(r) :
                                     HasColon(c[1]) =>
                                        /\ FileOf(c[1]) \in t.files
                                        /\ FuncOf(c[1]) \in
                                              t.detailed[FileOf(c[1])]},
                                  asg)]>>
        ELSE <<>>] :
     asg \in [{c \in RequestCells(r) :
                 HasColon(c[1]) =>
                    /\ FileOf(c[1]) \in t.files
                    /\ FuncOf(c[1]) \in t.detailed[FileOf(c[1])]}
              -> RequestValues(r)]}

EmptyIndex == [a \in ArchiverSet |-> <<>>]

\* The revisions a user can name: one that is indexed and one that is not.
RevisionRefs == {<<DefaultArchiver, 1>>, <<DefaultArchiver, 2>>}

\* Index.last_revision: the most recent revision.
LastRevision(revisions) == Head(revisions)

\* Lines 68-108, with the target revision found.  files and metrics are the
\* request the command was started with.
DiffBegin ==
    /\ pc = "diff"
    /\ index[DefaultArchiver] # <<>>
    /\ \E co \in BOOLEAN, det \in BOOLEAN,
          revision \in {<<>>, <<DefaultArchiver, 1>>} :
          /\ changes_only' = co
          /\ detail' = det
          /\ target_revision' =
               IF revision = <<>>
               THEN LastRevision(index[DefaultArchiver])
               ELSE CHOOSE e \in {index[DefaultArchiver][i] :
                                    i \in 1..Len(index[DefaultArchiver])} :
                        e.key = revision
    /\ pending' = OperatorsOf(metrics)
    /\ operator_exec_out' = <<>>
    /\ results' = <<>>
    /\ pc' = "pool"
    /\ UNCHANGED <<index, tree, outcome, out, files, metrics, opdata, fi,
                   rvars>>

\* Line 86 with nothing indexed: last_revision fails.
DiffEmptyIndex ==
    /\ pc = "diff"
    /\ index[DefaultArchiver] = <<>>
    /\ outcome' = "EmptyIndex"
    /\ pc' = "failed"
    /\ UNCHANGED <<index, tree, out, rvars, dvars>>

\* Lines 88-97: the named revision is not in the cache.
DiffRevisionNotCached ==
    /\ pc = "diff"
    /\ \E revision \in RevisionRefs :
          \A i \in 1..Len(index[DefaultArchiver]) :
              index[DefaultArchiver][i].key # revision
    /\ outcome' = "exit(1)"
    /\ pc' = "failed"
    /\ UNCHANGED <<index, tree, out, rvars, dvars>>

\* A worker of the pool runs its operator to the end.
RunOperator ==
    /\ pc = "pool"
    /\ \E op \in pending :
          /\ pending' = pending \ {op}
          /\ operator_exec_out' =
               operator_exec_out @@ (op :> [ok |-> TRUE,
                                            result |-> OperatorResult(op)])
    /\ UNCHANGED <<index, tree, pc, outcome, out, files, metrics, changes_only,
                   detail, target_revision, opdata, fi, results, rvars>>

\* A worker of the pool whose operator raises.
OperatorFails ==
    /\ pc = "pool"
    /\ \E op \in pending :
          /\ pending' = pending \ {op}
          /\ operator_exec_out' =
               operator_exec_out @@ (op :> [ok |-> FALSE, result |-> <<>>])
    /\ UNCHANGED <<index, tree, pc, outcome, out, files, metrics, changes_only,
                   detail, target_revision, opdata, fi, results, rvars>>

\* Lines 111-114: starmap returns once every worker is done, and raises the
\* exception of a worker that failed.
DiffPoolRaises ==
    /\ pc = "pool"
    /\ pending = {}
    /\ \E op \in DOMAIN operator_exec_out : ~operator_exec_out[op].ok
    /\ outcome' = "OperatorError"
    /\ pc' = "failed"
    /\ UNCHANGED <<index, tree, out, rvars, dvars>>

\* Lines 115-117: data.
MergedData(exec_out) == [op \in DOMAIN exec_out |-> exec_out[op].result]

\* Lines 111-139: every worker returned; data is merged and the functions
\* are added to files.
DiffMerge ==
    /\ pc = "pool"
    /\ pending = {}
    /\ \A op \in DOMAIN operator_exec_out : operator_exec_out[op].ok
    /\ opdata' = MergedData(operator_exec_out)
    /\ files' = files \o Extra(MergedData(operator_exec_out), metrics, files,
                               detail)
    /\ fi' = 1
    /\ pc' = "rows"
    /\ UNCHANGED <<index, tree, outcome, out, metrics, changes_only, detail,
                   target_revision, pending, operator_exec_out, results, rvars>>

\* Lines 140-180: one file of files.
DiffRow ==
    /\ pc = "rows"
    /\ fi <= Len(files)
    /\ results' =
         IF HasChanges(target_revision, opdata, metrics, files[fi])
            \/ ~changes_only
         THEN Append(results,
                     DiffRowOf(target_revision, opdata, metrics, files[fi]))
         ELSE results
    /\ fi' = fi + 1
    /\ UNCHANGED <<index, tree, pc, outcome, out, files, metrics, changes_only,
                   detail, target_revision, pending, operator_exec_out, opdata,
                   rvars>>

\* Lines 184-187: the JSON file.
DiffOutputJson ==
    /\ pc = "rows"
    /\ fi > Len(files)
    /\ Len(results) > 0
    /\ out' = generate_json_diff(results)
    /\ outcome' = "ok"
    /\ pc' = "done"
    /\ UNCHANGED <<index, tree, rvars, dvars>>

\* Lines 184-194: the table.
DiffOutputConsole ==
    /\ pc = "rows"
    /\ fi > Len(files)
    /\ Len(results) > 0
    /\ out' = [kind |-> "table", rows |-> results]
    /\ outcome' = "ok"
    /\ pc' = "done"
    /\ UNCHANGED <<index, tree, rvars, dvars>>

\* Line 184: no row, nothing is written.
DiffNoOutput ==
    /\ pc = "rows"
    /\ fi > Len(files)
    /\ Len(results) = 0
    /\ outcome' = "ok"
    /\ pc' = "done"
    /\ UNCHANGED <<index, tree, out, rvars, dvars>>

\* A request reads nothing outside its own files and metrics, so it is run
\* on the trees and indexes that hold values for it alone.
InitDiff ==
    /\ \E r \in DiffRequests :
          /\ files = r.files
          /\ metrics = r.metrics
          /\ tree \in TreesOf(r)
          /\ index \in IndexesOf(r, tree) \cup {EmptyIndex}
    /\ pc = "diff"
    /\ outcome = "none"
    /\ out = NoOutput
    /\ ReportIdle
    /\ changes_only = FALSE /\ detail = FALSE
    /\ target_revision = NoRevision /\ pending = {}
    /\ operator_exec_out = <<>> /\ opdata = <<>> /\ fi = 0
    /\ results = <<>>

NextDiff ==
    \/ DiffBegin
    \/ DiffEmptyIndex
    \/ DiffRevisionNotCached
    \/ RunOperator
    \/ OperatorFails
    \/ DiffPoolRaises
    \/ DiffMerge
    \/ DiffRow
    \/ DiffOutputJson
    \/ DiffOutputConsole
    \/ DiffNoOutput

SpecDiff == InitDiff /\ [][NextDiff]_vars

----------------------------------------------------------------------------
(* Properties of report *)

\* The rows report has made for one archiver, in the order it made them.
RowsOf(a) == SelectSeq(data, LAMBDA r : r.rev[1] = a)

\* The value the index holds for a row's revision and the one before it in
\* the archiver's window (None when the revision lacks the metric).
WindowVal(a, j, key) == ReportWindow(index[a], n)[j].vals[ReportPath][key]

ReportFinished == pc \in {"done", "failed"} /\ metric_metas # <<>>

\* C1: for a numeric metric, a row whose previous revision in the window has
\* the metric gets delta = current - baseline, and is shown unchanged (no
\* colour) exactly when current equals baseline.
C1_NumericDelta ==
    \A a \in ArchiverSet : \A j \in 2..Len(RowsOf(a)) :
        \A i \in 1..Len(metric_metas) :
            LET key == metric_metas[i].key
                cell == RowsOf(a)[j].vals[i]
                cur == WindowVal(a, j, key)
                base == WindowVal(a, j - 1, key)
            IN  (metric_metas[i].type \in {"int", "float"}
                    /\ cur # None /\ base # None)
                => /\ cell.delta = cur.num - base.num
                   /\ (cell.k.then.color = 0) <=> (cur = base)

\* C2: for a textual metric, a row equal to the previous revision's value is
\* shown unchanged (no colour), a differing row is shown changed, and the
\* delta is never a character-code difference.
C2_TextualEquality ==
    \A a \in ArchiverSet : \A j \in 2..Len(RowsOf(a)) :
        \A i \in 1..Len(metric_metas) :
            LET key == metric_metas[i].key
                cell == RowsOf(a)[j].vals[i]
                cur == WindowVal(a, j, key)
                base == WindowVal(a, j - 1, key)
            IN  (metric_metas[i].type = "str" /\ cur # None /\ base # None)
                => /\ (cur = base) => cell.k.then.color = 0
                   /\ (cur # base) => cell.k.then.color # 0
                   /\ cell.delta \in {0, 1}

\* C5 (report): with no revision indexed for any archiver, report ends in an
\* EmptyIndex failure and writes nothing.
C5_ReportEmptyIndex ==
    (ReportFinished /\ \A a \in ArchiverSet : index[a] = <<>>)
    => (outcome = "EmptyIndex" /\ out = NoOutput)

\* C6: report makes exactly min(n, number of indexed revisions) rows per
\* archiver, one for each of the most recent revisions, and the console and
\* HTML outputs list each archiver's rows most recent first.
C6_RowsBounded ==
    /\ \A a \in ArchiverSet : Len(RowsOf(a)) <= n
    /\ (pc = "archiver" /\ ai > Len(Archivers)) \/ ReportFinished
       => \A a \in ArchiverSet :
             /\ Len(RowsOf(a)) = Len(Take(index[a], n))
             /\ {RowsOf(a)[j].rev : j \in 1..Len(RowsOf(a))}
                  = {index[a][j].key : j \in 1..Len(Take(index[a], n))}
    /\ out.kind \in {"console", "html"}
       => /\ Len(out.rows) = Len(data)
          /\ \A i, j \in 1..Len(out.rows) :
                (i < j /\ out.rows[i].rev[1] = out.rows[j].rev[1])
                => out.rows[i].date > out.rows[j].date

\* C6 witness: a printed report in which the limit cut an archiver's history
\* to two rows and a metric lookup failed.
C6_Witness ==
    /\ out.kind \in {"console", "html"}
    /\ \E a \in ArchiverSet :
          /\ n < Len(index[a])
          /\ Len(RowsOf(a)) = 2
          /\ \E j \in 1..2 : ~RowsOf(a)[j].vals[1].found

\* C9: every row is compared against the value of the revision just before
\* it in the archiver's window, and against nothing when that revision lacks
\* the metric or the row is the archiver's oldest.
C9_BaselineIsPrevious ==
    \A a \in ArchiverSet : \A j \in 1..Len(RowsOf(a)) :
        \A i \in 1..Len(metric_metas) :
            LET key == metric_metas[i].key
                cell == RowsOf(a)[j].vals[i]
                cur == WindowVal(a, j, key)
                base == IF j = 1 THEN None ELSE WindowVal(a, j - 1, key)
            IN  cell.found
                => cell.k = plant_delta(cur, DeltaCol(metric_metas[i], cur, base))

----------------------------------------------------------------------------
(* Properties of diff *)

\* What the target revision and the working tree hold for a name and a
\* metric (None when there is no value).
Baseline(name, key) == index[DefaultArchiver][1].vals[name][key]
Measured(name, key) == tree.vals[name][key]

DiffEvaluating == pc \in {"rows", "done"} /\ metrics # <<>> /\ fi >= 1

\* The text diff shows for a value.
Shown(v) == IF v = None THEN Str("-") ELSE format_delta(v)

\* C3: a cell whose baseline or working-tree value is absent is unstyled: a
\* lone "-" when both are absent, else "-" on the absent side and the value
\* on the other.
C3_AbsentSideNeutral ==
    DiffEvaluating =>
    \A p \in 1..Len(results) : \A i \in 1..Len(metrics) :
        LET cur == Baseline(results[p].name, metrics[i])
            new == Measured(results[p].name, metrics[i])
            cell == results[p].cells[i]
        IN  (cur = None \/ new = None)
            => /\ cell.color = 0
               /\ cell.single <=> (cur = None /\ new = None)
               /\ ~cell.single
                  => (cell.currents = Shown(cur) /\ cell.news = Shown(new))

\* C3 witness: the results hold a cell with only the baseline absent, one with
\* only the working-tree value absent and one with both absent.
C3_Witness ==
    /\ pc = "done"
    /\ metrics # <<>>
    /\ \E p \in 1..Len(results) : \E i \in 1..Len(metrics) :
          /\ Baseline(results[p].name, metrics[i]) = None
          /\ Measured(results[p].name, metrics[i]) # None
    /\ \E p \in 1..Len(results) : \E i \in 1..Len(metrics) :
          /\ Baseline(results[p].name, metrics[i]) # None
          /\ Measured(results[p].name, metrics[i]) = None
    /\ \E p \in 1..Len(results) : \E i \in 1..Len(metrics) :
          /\ Baseline(results[p].name, metrics[i]) = None
          /\ Measured(results[p].name, metrics[i]) = None

\* C4: when one of several operators fails, diff is not aborted and data
\* holds exactly the results of the operators that succeeded.
C4_OperatorIsolation ==
    (/\ pc # "pool"
     /\ pending = {}
     /\ Cardinality(DOMAIN operator_exec_out) >= 2
     /\ \E op \in DOMAIN operator_exec_out : ~operator_exec_out[op].ok)
    => /\ outcome # "OperatorError"
       /\ DOMAIN opdata =
            {op \in DOMAIN operator_exec_out : operator_exec_out[op].ok}

\* C7: the JSON file holds one issue per row of the results, each located at
\* the file of its row, a file row as a file and a function row as a
\* function.
C7_OneIssuePerRow ==
    out.kind = "jsondiff"
    => /\ Len(out.rows) = Len(results)
       /\ \A q \in 1..Len(out.rows) :
             /\ out.rows[q].location = FileOf(out.rows[q].row.name)
             /\ (out.rows[q].column = "Function")
                  <=> HasColon(out.rows[q].row.name)

\* Whether some requested metric of a name differs between the working tree
\* and the baseline, a missing value differing from any value.
Differs(name) ==
    \E i \in 1..Len(metrics) :
        Measured(name, metrics[i]) # Baseline(name, metrics[i])

\* C8: the rows of the results are those of the evaluated names for which
\* changes_only is off or some requested metric differs.
C8_RowIncludedIffChanged ==
    DiffEvaluating =>
    [p \in 1..Len(results) |-> results[p].name]
      = SelectSeq(SubSeq(files, 1, fi - 1),
                  LAMBDA nm : ~changes_only \/ Differs(nm))

\* C8 witness: with changes_only on, a name is kept only because a value is
\* absent on one side, and a name with a metric absent on both sides is left
\* out.
C8_Witness ==
    /\ pc = "done"
    /\ metrics # <<>>
    /\ changes_only
    /\ \E p \in 1..Len(results) : \A i \in 1..Len(metrics) :
          LET cur == Baseline(results[p].name, metrics[i])
              new == Measured(results[p].name, metrics[i])
          IN  cur # new => (cur = None \/ new = None)
    /\ \E q \in 1..Len(files) :
          /\ \A p \in 1..Len(results) : results[p].name # files[q]
          /\ \E i \in 1..Len(metrics) :
                /\ Baseline(files[q], metrics[i]) = None
                /\ Measured(files[q], metrics[i]) = None

\* C10: the list of names to evaluate holds no name twice, and neither do the
\* results.
C10_NoDuplicateRows ==
    /\ \A i, j \in 1..Len(files) : i # j => files[i] # files[j]
    /\ \A i, j \in 1..Len(results) : i # j => results[i].name # results[j].name

====
